---- MODULE Spec2Model ----
(***************************************************************************)
(* printpdf: the two PdfDocument types (src/api/types/pdf_document.rs, the *)
(* older index-checked API, and src/types/pdf_document.rs, the newer one)  *)
(* and their save pipeline onto a lopdf::Document object graph.            *)
(* Indices are 0-based as in the Rust code; Vec v's element i is v[i + 1]. *)
(***************************************************************************)
EXTENDS Integers, Sequences, FiniteSets, TLC

\* ---------------------------------------------------------------- bounds
\* pages + layers + markers + registered contents of one document
MaxSize == 5

\* ---------------------------------------------------------------- inputs
PageSizesMm == {<<127, 254>>, <<254, 127>>}
MarkerPosMm == {<<127, 127>>}
LayerNames == {"Body"}
GeneratedIds == {"idA"}
OverrideIds == {"idB"}
InstanceIds == {"idC"}
RawContents == {[Type |-> "Stream", Length |-> 0]}
FontStreams == {"ttf", "garbage"}
PageIdx == {0, 1}
LayerHandles == {<<0, 0>>, <<0, 1>>, <<1, 0>>}
MarkerHandles == {<<0, 0, 0>>, <<0, 0, 1>>, <<0, 1, 0>>, <<1, 0, 0>>}
CurrentMarkers == {<<0, 0, 0>>, <<1, 0, 0>>}

\* ---------------------------------------------------------------- results
Ok(v) == [kind |-> "Ok", err |-> "None", val |-> v]
Err(e) == [kind |-> "Err", err |-> e, val |-> <<>>]
Panic == [kind |-> "Panic", err |-> "None", val |-> <<>>]
Call(op, arg, r) == [op |-> op, arg |-> arg, kind |-> r.kind, err |-> r.err, val |-> r.val]

\* ---------------------------------------------------------------- units
mm_to_pt(mm) == (mm * 720) \div 254

\* ---------------------------------------------------------------- lopdf
EmptyMap == [k \in {} |-> 0]
Put(f, k, v) == [x \in DOMAIN f \cup {k} |-> IF x = k THEN v ELSE f[x]]
Reference(id) == [Reference |-> id]
Document_new == [version |-> "1.4", max_id |-> 0, objects |-> EmptyMap, trailer |-> EmptyMap]
Document_with_version(v) == [version |-> v, max_id |-> 0, objects |-> EmptyMap, trailer |-> EmptyMap]
\* new_object_id returns the id d'.max_id
new_object_id(d) == [d EXCEPT !.max_id = @ + 1]
\* add_object returns the id d'.max_id
add_object(d, obj) == [d EXCEPT !.max_id = @ + 1, !.objects = Put(@, d.max_id + 1, obj)]
objects_insert(d, id, obj) == [d EXCEPT !.objects = Put(@, id, obj)]
trailer_set(d, key, v) == [d EXCEPT !.trailer = Put(@, key, v)]
IsStream(obj) == "Length" \in DOMAIN obj

DictRefs(dict) ==
    IF "DestinationOutputProfile" \in DOMAIN dict
    THEN {dict.DestinationOutputProfile.Reference} ELSE {}
ObjectRefs(obj) ==
    CASE obj.Type = "Catalog" ->
           {obj.Pages.Reference}
           \cup (IF "Metadata" \in DOMAIN obj THEN {obj.Metadata.Reference} ELSE {})
           \cup (IF "OutputIntents" \in DOMAIN obj
                 THEN UNION {DictRefs(obj.OutputIntents[i]) : i \in DOMAIN obj.OutputIntents}
                 ELSE {})
      [] obj.Type = "Pages" -> {obj.Kids[i].Reference : i \in DOMAIN obj.Kids}
      [] obj.Type = "Page" -> {obj.Parent.Reference}
      [] OTHER -> {}
TrailerRefs(t) ==
    (IF "Root" \in DOMAIN t THEN {t.Root.Reference} ELSE {})
    \cup (IF "Info" \in DOMAIN t THEN {t.Info.Reference} ELSE {})
RECURSIVE traverse_objects(_, _, _)
traverse_objects(objects, seen, frontier) ==
    IF frontier = {} THEN seen
    ELSE LET next == UNION {ObjectRefs(objects[i]) : i \in frontier \cap DOMAIN objects}
         IN traverse_objects(objects, seen \cup frontier, next \ (seen \cup frontier))
prune_objects(d) ==
    LET refs == traverse_objects(d.objects, {}, TrailerRefs(d.trailer))
    IN [d EXCEPT !.objects = [i \in DOMAIN @ \cap refs |-> @[i]]]
delete_zero_length_streams(d) ==
    [d EXCEPT !.objects =
        [i \in {j \in DOMAIN @ : ~(IsStream(@[j]) /\ @[j].Length = 0)} |-> @[i]]]
compress(d) ==
    [d EXCEPT !.objects =
        [i \in DOMAIN @ |-> IF IsStream(@[i]) THEN Put(@[i], "Filter", "FlateDecode") ELSE @[i]]]
\* save_to: what reaches the output stream when the write succeeds / fails
NoOutput == [written |-> FALSE, version |-> "", objects |-> EmptyMap, trailer |-> EmptyMap]
save_to(d, io_ok) ==
    IF io_ok
    THEN [written |-> TRUE, version |-> d.version, objects |-> d.objects, trailer |-> d.trailer]
    ELSE NoOutput

\* ------------------------------------------- PdfMarker / PdfLayer / PdfPage
PdfMarker_new(x_mm, y_mm) == [x_pt |-> mm_to_pt(x_mm), y_pt |-> mm_to_pt(y_mm)]
PdfLayer_new(name) == [name |-> name, markers |-> <<>>]
\* returns the layer with the marker appended, and the marker's index
PdfLayer_add_marker(layer, x_mm, y_mm) ==
    [layer |-> [layer EXCEPT !.markers = Append(@, PdfMarker_new(x_mm, y_mm))],
     index |-> Len(layer.markers)]
PdfLayer_get_marker(layer, m) ==
    IF m < Len(layer.markers) THEN Ok(layer.markers[m + 1]) ELSE Err("PdfMarkerIndexError")
\* api::types::PdfPage::new(x_mm, y_mm): a page without layers
api_PdfPage_new(x_mm, y_mm) ==
    [width_pt |-> mm_to_pt(x_mm), heigth_pt |-> mm_to_pt(y_mm), layers |-> <<>>]
PdfPage_add_layer(page, name) ==
    [page |-> [page EXCEPT !.layers = Append(@, PdfLayer_new(name))],
     index |-> Len(page.layers)]
PdfPage_get_layer(page, l) ==
    IF l < Len(page.layers) THEN Ok(page.layers[l + 1]) ELSE Err("PdfLayerIndexError")
\* types::PdfPage::new(document, x_mm, y_mm, layer_name): a page with one layer
PdfPage_new(document, x_mm, y_mm, layer_name) ==
    [page |-> [document |-> document, width_pt |-> mm_to_pt(x_mm),
               heigth_pt |-> mm_to_pt(y_mm), layers |-> <<PdfLayer_new(layer_name)>>],
     index |-> 0]

VARIABLES
    impl,          \* which PdfDocument the client built: "api" or "types"
    api_doc,       \* the api::types::PdfDocument
    doc,           \* the types::PdfDocument
    phase,         \* "open", "saved" (consumed by save) or "panicked"
    ret,           \* the last call: operation, handle argument, result
    target,        \* what save wrote to the output stream
    issued,        \* history: the page and content handles returned so far
    requested_id   \* history: the id last passed to with_document_id ("" if none)
vars == <<impl, api_doc, doc, phase, ret, target, issued, requested_id>>

RECURSIVE SumSeq(_)
SumSeq(ns) == IF ns = <<>> THEN 0 ELSE Head(ns) + SumSeq(Tail(ns))
PageMarkers(page) == SumSeq([j \in 1..Len(page.layers) |-> Len(page.layers[j].markers)])
\* pages, layers and markers below a list of pages
TreeSize(pages) ==
    Len(pages) + SumSeq([i \in 1..Len(pages) |-> Len(pages[i].layers) + PageMarkers(pages[i])])
ApiSize == TreeSize(api_doc.pages) + Len(api_doc.contents)
Size == Len(doc.pages) + Len(doc.contents)

\* ------------------------------------------------ api::types::PdfDocument
api_PdfDocument_new(initial_page) ==
    [pages |-> <<initial_page>>, contents |-> <<>>, inner_doc |-> Document_new,
     current_marker |-> <<0, 0, 0>>]

api_get_page(d, page) ==
    IF page < Len(d.pages) THEN Ok(d.pages[page + 1]) ELSE Err("PdfPageIndexError")
api_get_mut_page(d, page) ==
    IF page < Len(d.pages) THEN Ok(d.pages[page + 1]) ELSE Err("PdfPageIndexError")
api_get_layer(d, layer) ==
    LET p == api_get_page(d, layer[1])
    IN IF p.kind # "Ok" THEN p ELSE PdfPage_get_layer(p.val, layer[2])
api_get_mut_layer(d, layer) ==
    LET p == api_get_mut_page(d, layer[1])
    IN IF p.kind # "Ok" THEN p ELSE PdfPage_get_layer(p.val, layer[2])
api_get_marker(d, marker) ==
    LET p == api_get_page(d, marker[1])
    IN IF p.kind # "Ok" THEN p
       ELSE LET l == PdfPage_get_layer(p.val, marker[2])
            IN IF l.kind # "Ok" THEN l ELSE PdfLayer_get_marker(l.val, marker[3])
api_get_mut_marker(d, marker) ==
    LET p == api_get_mut_page(d, marker[1])
    IN IF p.kind # "Ok" THEN p
       ELSE LET l == PdfPage_get_layer(p.val, marker[2])
            IN IF l.kind # "Ok" THEN l ELSE PdfLayer_get_marker(l.val, marker[3])

\* The mutating operations return the document after the call and the result.
api_add_page(d, x_mm, y_mm) ==
    LET pages == Append(d.pages, api_PdfPage_new(x_mm, y_mm))
    IN [doc |-> [d EXCEPT !.pages = pages], ret |-> Ok(<<Len(pages) - 1>>)]
\* mutant of api_add_marker: returns the length after the push, not the index
api_add_marker_len(d, x_mm, y_mm, layer) ==
    LET p == api_get_mut_page(d, layer[1])
    IN IF p.kind # "Ok" THEN [doc |-> d, ret |-> p]
       ELSE LET l == PdfPage_get_layer(p.val, layer[2])
            IN IF l.kind # "Ok" THEN [doc |-> d, ret |-> l]
               ELSE LET a == PdfLayer_add_marker(l.val, x_mm, y_mm)
                    IN [doc |-> [d EXCEPT !.pages[layer[1] + 1].layers[layer[2] + 1] = a.layer],
                        ret |-> Ok(<<layer[1], layer[2], Len(a.layer.markers)>>)]
\* mutant of api_add_layer: creates the missing page before reporting the error
api_add_layer_grow(d, name, page) ==
    LET p == api_get_mut_page(d, page)
    IN IF p.kind # "Ok"
       THEN [doc |-> [d EXCEPT !.pages = Append(@, api_PdfPage_new(127, 127))], ret |-> p]
       ELSE LET a == PdfPage_add_layer(p.val, name)
            IN [doc |-> [d EXCEPT !.pages[page + 1] = a.page],
                ret |-> Ok(<<page, a.index>>)]
api_add_layer(d, name, page) ==
    LET p == api_get_mut_page(d, page)
    IN IF p.kind # "Ok" THEN [doc |-> d, ret |-> p]
       ELSE LET a == PdfPage_add_layer(p.val, name)
            IN [doc |-> [d EXCEPT !.pages[page + 1] = a.page],
                ret |-> Ok(<<page, a.index>>)]
api_add_marker(d, x_mm, y_mm, layer) ==
    LET p == api_get_mut_page(d, layer[1])
    IN IF p.kind # "Ok" THEN [doc |-> d, ret |-> p]
       ELSE LET l == PdfPage_get_layer(p.val, layer[2])
            IN IF l.kind # "Ok" THEN [doc |-> d, ret |-> l]
               ELSE LET a == PdfLayer_add_marker(l.val, x_mm, y_mm)
                    IN [doc |-> [d EXCEPT !.pages[layer[1] + 1].layers[layer[2] + 1] = a.layer],
                        ret |-> Ok(<<layer[1], layer[2], a.index>>)]
api_add_arbitrary_content(d, content) ==
    LET contents == Append(d.contents, content)
    IN [doc |-> [d EXCEPT !.contents = contents], ret |-> Ok(<<Len(contents) - 1>>)]
Font_new(font_stream) ==
    IF font_stream = "ttf" THEN Ok([Type |-> "Font", Length |-> 1]) ELSE Err("FontParseError")
api_add_font(d, font_stream) ==
    LET font == Font_new(font_stream)
    IN IF font.kind # "Ok" THEN [doc |-> d, ret |-> font]
       ELSE api_add_arbitrary_content(d, font.val)
api_set_current_marker(d, marker) == [d EXCEPT !.current_marker = marker]
\* get_marker(&self.current_marker).unwrap(): the marker, or a panic
api_get_inner(d) ==
    LET marker == api_get_marker(d, d.current_marker)
    IN IF marker.kind = "Ok"
       THEN Ok([inner_doc |-> d.inner_doc, contents |-> d.contents, marker |-> marker.val])
       ELSE Panic

api_save(d, io_ok) ==
    LET d0 == new_object_id(d.inner_doc)
        start == d0.max_id
        catalog == [Type |-> "Catalog", PageLayout |-> "OneColumn", PageMode |-> "Use0",
                    Pages |-> Reference(start)]
        RECURSIVE add_pages(_, _, _)
        add_pages(g, ps, page_ids) ==
            IF ps = <<>> THEN [inner_doc |-> g, page_ids |-> page_ids]
            ELSE LET page == Head(ps)
                     p == [Type |-> "Page",
                           MediaBox |-> <<0, 0, page.width_pt, page.heigth_pt>>,
                           Parent |-> Reference(start)]
                     g1 == add_object(g, p)
                 IN add_pages(g1, Tail(ps), Append(page_ids, Reference(g1.max_id)))
        r == add_pages(d0, d.pages, <<>>)
        \* built, given its Kids, and dropped: never added to inner_doc
        pages == [Type |-> "Pages", Count |-> Len(d.pages), Kids |-> r.page_ids]
        d1 == add_object(r.inner_doc, catalog)
        catalog_id == d1.max_id
        d2 == trailer_set(d1, "Root", Reference(catalog_id))
        d3 == compress(d2)
    IN [target |-> save_to(d3, io_ok), ret |-> IF io_ok THEN Ok(<<>>) ELSE Panic]

\* ----------------------------------------------------- types::PdfMetadata
PdfMetadata_new(document_title, document_version, trapping, conformance) ==
    [document_title |-> document_title, document_version |-> document_version,
     trapping |-> trapping, conformance |-> conformance,
     xmp_metadata |-> [document_id |-> ""], icc_profile |-> "None"]
\* (xmp_metadata, document_info, icc_profile)
PdfMetadata_into_obj(m) ==
    [xmp_metadata |-> [Type |-> "Metadata", Length |-> 1,
                       DocumentID |-> m.xmp_metadata.document_id],
     document_info |-> [Type |-> "Info", Title |-> m.document_title, Trapped |-> m.trapping],
     icc_profile |-> m.icc_profile]
IccProfile_into_obj(profile) == [Type |-> "ICCProfile", Length |-> 1]
Svg_new(svg_data) == [Type |-> "XObject", Length |-> 1]

\* ---------------------------------------------------- types::PdfDocument
PdfDocument_new(document_id, size, initial_layer_name) ==
    LET d == [pages |-> <<>>, document_id |-> document_id, contents |-> <<>>,
              inner_doc |-> Document_with_version("1.3"),
              metadata |-> PdfMetadata_new("title", 1, FALSE, "X3_2003_PDF_1_4")]
        p == PdfPage_new("weak", size[1], size[2], initial_layer_name)
    IN [d EXCEPT !.pages = Append(@, p.page)]

with_document_id(d, id) == [d EXCEPT !.metadata.xmp_metadata.document_id = id]
set_icc_profile(d) == [d EXCEPT !.metadata.icc_profile = "Some"]

\* mutant of add_page: the new page is stored without its initial layer
add_page_layerless(d, x_mm, y_mm, inital_layer_name) ==
    IF Len(d.pages) = 0 THEN [doc |-> d, ret |-> Panic]
    ELSE LET document_weak_ptr == d.pages[1].document
             p == PdfPage_new(document_weak_ptr, x_mm, y_mm, inital_layer_name)
             pages == Append(d.pages, [p.page EXCEPT !.layers = <<>>])
         IN [doc |-> [d EXCEPT !.pages = pages], ret |-> Ok(<<Len(pages) - 1, p.index>>)]
add_page(d, x_mm, y_mm, inital_layer_name) ==
    IF Len(d.pages) = 0 THEN [doc |-> d, ret |-> Panic]
    ELSE LET document_weak_ptr == d.pages[1].document
             p == PdfPage_new(document_weak_ptr, x_mm, y_mm, inital_layer_name)
             pages == Append(d.pages, p.page)
         IN [doc |-> [d EXCEPT !.pages = pages], ret |-> Ok(<<Len(pages) - 1, p.index>>)]
\* mutant of add_arbitrary_content: the reference is put in front of the registry
add_arbitrary_content_front(d, content) ==
    LET g == add_object(d.inner_doc, content)
        obj_id == g.max_id
        contents == <<Reference(obj_id)>> \o d.contents
    IN [doc |-> [d EXCEPT !.inner_doc = g, !.contents = contents],
        ret |-> Ok(<<Len(contents) - 1>>)]
add_arbitrary_content(d, content) ==
    LET g == add_object(d.inner_doc, content)
        obj_id == g.max_id
        contents == Append(d.contents, Reference(obj_id))
    IN [doc |-> [d EXCEPT !.inner_doc = g, !.contents = contents],
        ret |-> Ok(<<Len(contents) - 1>>)]
add_font(d, font_stream) ==
    LET font == Font_new(font_stream)
    IN IF font.kind # "Ok" THEN [doc |-> d, ret |-> font]
       ELSE add_arbitrary_content(d, font.val)
add_svg(d, svg_data) ==
    LET g == add_object(d.inner_doc, Svg_new(svg_data))
        svg_obj_id == g.max_id
        contents == Append(d.contents, Reference(svg_obj_id))
    IN [doc |-> [d EXCEPT !.inner_doc = g, !.contents = contents],
        ret |-> Ok(<<Len(contents) - 1>>)]
get_page_mut(d, page) ==
    IF page < Len(d.pages) THEN Ok(d.pages[page + 1]) ELSE Panic

\* mutant of output_intents_dict: the profile is never linked
output_intents_dict_unlinked(icc_profile, icc_profile_id) ==
    [S |-> "GTS_PDFX", Type |-> "OutputIntent", OutputConditionIdentifier |-> "FOGRA39",
     RegistryName |-> "http://www.color.org", Info |-> "Coated FOGRA39 (ISO 12647-2:2004)"]
\* the output-intent dictionary of the catalog
output_intents_dict(icc_profile, icc_profile_id) ==
    LET output_intents == [S |-> "GTS_PDFX", Type |-> "OutputIntent",
                           OutputConditionIdentifier |-> "FOGRA39",
                           RegistryName |-> "http://www.color.org",
                           Info |-> "Coated FOGRA39 (ISO 12647-2:2004)"]
    IN IF icc_profile # "None"
       THEN Put(output_intents, "DestinationOutputProfile", Reference(icc_profile_id))
       ELSE output_intents

save(d, instance_id, io_ok) ==
    LET d0 == new_object_id(d.inner_doc)
        pages_id == d0.max_id
        m == PdfMetadata_into_obj(d.metadata)
        d1 == add_object(d0, m.xmp_metadata)
        xmp_metadata_id == d1.max_id
        d2 == add_object(d1, m.document_info)
        document_info_id == d2.max_id
        d3 == IF m.icc_profile # "None"
              THEN add_object(d2, IccProfile_into_obj(m.icc_profile)) ELSE d2
        icc_profile_id == d3.max_id
        output_intents == output_intents_dict(m.icc_profile, icc_profile_id)
        catalog == [Type |-> "Catalog", PageLayout |-> "OneColumn", PageMode |-> "Use0",
                    Pages |-> Reference(pages_id), Metadata |-> Reference(xmp_metadata_id),
                    OutputIntents |-> <<output_intents>>]
        pages0 == [Type |-> "Pages", Count |-> Len(d.pages)]
        RECURSIVE add_pages(_, _, _)
        add_pages(g, ps, page_ids) ==
            IF ps = <<>> THEN [inner_doc |-> g, page_ids |-> page_ids]
            ELSE LET page == Head(ps)
                     box == <<0, 0, page.width_pt, page.heigth_pt>>
                     p == [Type |-> "Page", Rotate |-> 0, MediaBox |-> box, TrimBox |-> box,
                           CropBox |-> box, Parent |-> Reference(pages_id)]
                     g1 == add_object(g, p)
                 IN add_pages(g1, Tail(ps), Append(page_ids, Reference(g1.max_id)))
        r == add_pages(d3, d.pages, <<>>)
        pages == Put(pages0, "Kids", r.page_ids)
        d4 == objects_insert(r.inner_doc, pages_id, pages)
        d5 == add_object(d4, catalog)
        catalog_id == d5.max_id
        d6 == trailer_set(d5, "Root", Reference(catalog_id))
        d7 == trailer_set(d6, "Info", Reference(document_info_id))
        d8 == trailer_set(d7, "ID", <<d.document_id, instance_id>>)
        d9 == delete_zero_length_streams(prune_objects(d8))
    IN [target |-> save_to(d9, io_ok), ret |-> IF io_ok THEN Ok(<<>>) ELSE Panic]

\* ------------------------------------------------------------------ state
DefaultSize == <<127, 254>>
IssuePage(d, r) ==
    IF r.kind # "Ok" THEN issued
    ELSE [issued EXCEPT !.pages = @ \cup {[index |-> r.val[1],
                                            width_pt |-> d.pages[r.val[1] + 1].width_pt,
                                            heigth_pt |-> d.pages[r.val[1] + 1].heigth_pt]}]
IssueContent(d, r) ==
    IF r.kind # "Ok" THEN issued
    ELSE [issued EXCEPT !.contents = @ \cup {[index |-> r.val[1],
                                               content |-> d.contents[r.val[1] + 1]]}]
Next_phase(r) == IF r.kind = "Panic" THEN "panicked" ELSE phase

Init ==
    /\ impl \in {"api", "types"}
    /\ \E size \in PageSizesMm, id \in GeneratedIds :
          /\ api_doc = api_PdfDocument_new(
                          api_PdfPage_new(IF impl = "api" THEN size[1] ELSE DefaultSize[1],
                                          IF impl = "api" THEN size[2] ELSE DefaultSize[2]))
          /\ doc = IF impl = "types" THEN PdfDocument_new(id, size, "Body")
                   ELSE PdfDocument_new("idA", DefaultSize, "Body")
    /\ phase = "open"
    /\ ret = Call("new", <<>>, IF impl = "types" THEN Ok(<<0, 0>>) ELSE Ok(<<>>))
    /\ target = NoOutput
    /\ requested_id = ""
    /\ issued = [pages |-> IF impl = "types"
                           THEN {[index |-> 0, width_pt |-> doc.pages[1].width_pt,
                                  heigth_pt |-> doc.pages[1].heigth_pt]}
                           ELSE {},
                 contents |-> {}]

ApiOpen == impl = "api" /\ phase = "open"
Open == impl = "types" /\ phase = "open"

\* --------------------------------------------- api::types::PdfDocument steps
Api_AddPage ==
    /\ ApiOpen /\ ApiSize < MaxSize
    /\ \E size \in PageSizesMm :
          LET r == api_add_page(api_doc, size[1], size[2])
          IN /\ api_doc' = r.doc
             /\ ret' = Call("add_page", <<>>, r.ret)
             /\ issued' = IssuePage(r.doc, r.ret)
    /\ UNCHANGED <<impl, doc, phase, target, requested_id>>
Api_AddLayer ==
    /\ ApiOpen
    /\ \E name \in LayerNames, page \in PageIdx :
          LET r == api_add_layer(api_doc, name, page)
          IN /\ r.ret.kind = "Ok" => ApiSize < MaxSize
             /\ api_doc' = r.doc
             /\ ret' = Call("add_layer", <<page>>, r.ret)
    /\ UNCHANGED <<impl, doc, phase, target, issued, requested_id>>
Api_AddMarker ==
    /\ ApiOpen
    /\ \E pos \in MarkerPosMm, layer \in LayerHandles :
          LET r == api_add_marker(api_doc, pos[1], pos[2], layer)
          IN /\ r.ret.kind = "Ok" => ApiSize < MaxSize
             /\ api_doc' = r.doc
             /\ ret' = Call("add_marker", layer, r.ret)
    /\ UNCHANGED <<impl, doc, phase, target, issued, requested_id>>
Api_AddArbitraryContent ==
    /\ ApiOpen /\ ApiSize < MaxSize
    /\ \E content \in RawContents :
          LET r == api_add_arbitrary_content(api_doc, content)
          IN /\ api_doc' = r.doc
             /\ ret' = Call("add_arbitrary_content", <<>>, r.ret)
             /\ issued' = IssueContent(r.doc, r.ret)
    /\ UNCHANGED <<impl, doc, phase, target, requested_id>>
Api_AddFont ==
    /\ ApiOpen
    /\ \E font_stream \in FontStreams :
          LET r == api_add_font(api_doc, font_stream)
          IN /\ r.ret.kind = "Ok" => ApiSize < MaxSize
             /\ api_doc' = r.doc
             /\ ret' = Call("add_font", <<>>, r.ret)
             /\ issued' = IssueContent(r.doc, r.ret)
    /\ UNCHANGED <<impl, doc, phase, target, requested_id>>
\* unimplemented!()
Api_AddSvg ==
    /\ ApiOpen
    /\ ret' = Call("add_svg", <<>>, Panic)
    /\ phase' = "panicked"
    /\ UNCHANGED <<impl, api_doc, doc, target, issued, requested_id>>
Api_GetPage ==
    /\ ApiOpen
    /\ \E page \in PageIdx : ret' = Call("get_page", <<page>>, api_get_page(api_doc, page))
    /\ UNCHANGED <<impl, api_doc, doc, phase, target, issued, requested_id>>
Api_GetMutPage ==
    /\ ApiOpen
    /\ \E page \in PageIdx :
          ret' = Call("get_mut_page", <<page>>, api_get_mut_page(api_doc, page))
    /\ UNCHANGED <<impl, api_doc, doc, phase, target, issued, requested_id>>
Api_GetLayer ==
    /\ ApiOpen
    /\ \E layer \in LayerHandles :
          ret' = Call("get_layer", layer, api_get_layer(api_doc, layer))
    /\ UNCHANGED <<impl, api_doc, doc, phase, target, issued, requested_id>>
Api_GetMutLayer ==
    /\ ApiOpen
    /\ \E layer \in LayerHandles :
          ret' = Call("get_mut_layer", layer, api_get_mut_layer(api_doc, layer))
    /\ UNCHANGED <<impl, api_doc, doc, phase, target, issued, requested_id>>
Api_GetMarker ==
    /\ ApiOpen
    /\ \E marker \in MarkerHandles :
          ret' = Call("get_marker", marker, api_get_marker(api_doc, marker))
    /\ UNCHANGED <<impl, api_doc, doc, phase, target, issued, requested_id>>
Api_GetMutMarker ==
    /\ ApiOpen
    /\ \E marker \in MarkerHandles :
          ret' = Call("get_mut_marker", marker, api_get_mut_marker(api_doc, marker))
    /\ UNCHANGED <<impl, api_doc, doc, phase, target, issued, requested_id>>
Api_SetCurrentMarker ==
    /\ ApiOpen
    /\ \E marker \in CurrentMarkers :
          /\ api_doc' = api_set_current_marker(api_doc, marker)
          /\ ret' = Call("set_current_marker", marker, Ok(<<>>))
    /\ UNCHANGED <<impl, doc, phase, target, issued, requested_id>>
Api_GetInner ==
    /\ ApiOpen
    /\ LET r == api_get_inner(api_doc)
       IN /\ ret' = Call("get_inner", <<>>, r)
          /\ phase' = IF r.kind = "Panic" THEN "panicked" ELSE "consumed"
    /\ UNCHANGED <<impl, api_doc, doc, target, issued, requested_id>>
Api_Save ==
    /\ ApiOpen
    /\ \E io_ok \in BOOLEAN :
          LET r == api_save(api_doc, io_ok)
          IN /\ target' = r.target
             /\ ret' = Call("save", <<>>, r.ret)
             /\ phase' = IF r.ret.kind = "Panic" THEN "panicked" ELSE "saved"
    /\ UNCHANGED <<impl, api_doc, doc, issued, requested_id>>

\* ------------------------------------------------ types::PdfDocument steps
WithDocumentId ==
    /\ Open
    /\ \E id \in OverrideIds :
          /\ doc' = with_document_id(doc, id)
          /\ ret' = Call("with_document_id", <<>>, Ok(<<>>))
          /\ requested_id' = id
    /\ UNCHANGED <<impl, api_doc, phase, target, issued>>
SetIccProfile ==
    /\ Open
    /\ doc' = set_icc_profile(doc)
    /\ ret' = Call("set_icc_profile", <<>>, Ok(<<>>))
    /\ UNCHANGED <<impl, api_doc, phase, target, issued, requested_id>>
AddPage ==
    /\ Open /\ Size < MaxSize
    /\ \E size \in PageSizesMm, name \in LayerNames :
          LET r == add_page(doc, size[1], size[2], name)
          IN /\ doc' = r.doc
             /\ ret' = Call("add_page", <<>>, r.ret)
             /\ phase' = Next_phase(r.ret)
             /\ issued' = IssuePage(r.doc, r.ret)
    /\ UNCHANGED <<impl, api_doc, target, requested_id>>
AddArbitraryContent ==
    /\ Open /\ Size < MaxSize
    /\ \E content \in RawContents :
          LET r == add_arbitrary_content(doc, content)
          IN /\ doc' = r.doc
             /\ ret' = Call("add_arbitrary_content", <<>>, r.ret)
             /\ issued' = IssueContent(r.doc, r.ret)
    /\ UNCHANGED <<impl, api_doc, phase, target, requested_id>>
AddFont ==
    /\ Open
    /\ \E font_stream \in FontStreams :
          LET r == add_font(doc, font_stream)
          IN /\ r.ret.kind = "Ok" => Size < MaxSize
             /\ doc' = r.doc
             /\ ret' = Call("add_font", <<>>, r.ret)
             /\ issued' = IssueContent(r.doc, r.ret)
    /\ UNCHANGED <<impl, api_doc, phase, target, requested_id>>
AddSvg ==
    /\ Open /\ Size < MaxSize
    /\ LET r == add_svg(doc, "svg")
       IN /\ doc' = r.doc
          /\ ret' = Call("add_svg", <<>>, r.ret)
          /\ issued' = IssueContent(r.doc, r.ret)
    /\ UNCHANGED <<impl, api_doc, phase, target, requested_id>>
GetPageMut ==
    /\ Open
    /\ \E page \in PageIdx :
          LET r == get_page_mut(doc, page)
          IN /\ ret' = Call("get_page_mut", <<page>>, r)
             /\ phase' = Next_phase(r)
    /\ UNCHANGED <<impl, api_doc, doc, target, issued, requested_id>>
Save ==
    /\ Open
    /\ \E instance_id \in InstanceIds, io_ok \in BOOLEAN :
          LET r == save(doc, instance_id, io_ok)
          IN /\ target' = r.target
             /\ ret' = Call("save", <<>>, r.ret)
             /\ phase' = IF r.ret.kind = "Panic" THEN "panicked" ELSE "saved"
    /\ UNCHANGED <<impl, api_doc, doc, issued, requested_id>>

Next ==
    \/ Api_AddPage \/ Api_AddLayer \/ Api_AddMarker \/ Api_AddArbitraryContent
    \/ Api_AddFont \/ Api_AddSvg \/ Api_GetPage \/ Api_GetMutPage \/ Api_GetLayer
    \/ Api_GetMutLayer \/ Api_GetMarker \/ Api_GetMutMarker \/ Api_SetCurrentMarker
    \/ Api_GetInner \/ Api_Save
    \/ WithDocumentId \/ SetIccProfile \/ AddPage \/ AddArbitraryContent \/ AddFont
    \/ AddSvg \/ GetPageMut \/ Save

Spec == Init /\ [][Next]_vars

\* ---------------------------------------------------------------- views
ThePages == IF impl = "api" THEN api_doc.pages ELSE doc.pages
TheContents == IF impl = "api" THEN api_doc.contents ELSE doc.contents
SaveOk == ret.op = "save" /\ ret.kind = "Ok"
Has(id) == id \in DOMAIN target.objects
Obj(id) == target.objects[id]
CatalogId == target.trailer.Root.Reference
HasCatalog == "Root" \in DOMAIN target.trailer /\ Has(CatalogId) /\ Obj(CatalogId).Type = "Catalog"
PageTreeId == Obj(CatalogId).Pages.Reference
PageAccessors ==
    {"get_page", "get_mut_page", "get_layer", "get_mut_layer", "get_marker",
     "get_mut_marker", "add_layer", "add_marker", "get_page_mut"}
ContentAdders == {"add_arbitrary_content", "add_font", "add_svg"}

\* C1: a page-addressed accessor called with a page index >= the number of
\* pages returns IndexError(PdfPageIndexError): no other error, no panic.
C1_PageIndexError ==
    (ret.op \in PageAccessors /\ ret.arg[1] >= Len(ThePages))
        => (ret.kind = "Err" /\ ret.err = "PdfPageIndexError")

\* C2: after save the emitted page tree has Count = number of pages and Kids
\* lists the page objects, one per page, in the order the pages were added.
C2_PageTree ==
    SaveOk =>
        /\ HasCatalog /\ Has(PageTreeId)
        /\ LET tree == Obj(PageTreeId)
           IN /\ tree.Type = "Pages"
              /\ tree.Count = Len(ThePages)
              /\ Len(tree.Kids) = Len(ThePages)
              /\ \A i \in 1..Len(ThePages) :
                    /\ Has(tree.Kids[i].Reference)
                    /\ Obj(tree.Kids[i].Reference).Type = "Page"
                    /\ Obj(tree.Kids[i].Reference).MediaBox
                          = <<0, 0, ThePages[i].width_pt, ThePages[i].heigth_pt>>
              /\ \A i, j \in 1..Len(tree.Kids) : i # j => tree.Kids[i] # tree.Kids[j]

\* C3: the page tree is registered at the identifier reserved at the start of
\* save and nothing else is; in the serialized graph the catalog's Pages and
\* every page's Parent resolve to a present object (the page tree).
C3_PageTreeAtReservedId ==
    SaveOk =>
        /\ HasCatalog /\ Has(PageTreeId) /\ Obj(PageTreeId).Type = "Pages"
        /\ \A id \in DOMAIN target.objects :
              Obj(id).Type = "Page" => Obj(id).Parent.Reference = PageTreeId

\* C4: every content registered before save is still present in the
\* serialized object graph, linked from a page dictionary.
C4_ContentLinked ==
    (SaveOk /\ impl = "types") =>
        \A i \in 1..Len(doc.contents) : Has(doc.contents[i].Reference)

\* C5: the trailer has Root -> catalog, Info -> info dictionary and a
\* 2-element ID whose first element is the document id: the generated one,
\* or the id given to with_document_id.
C5_TrailerId ==
    (SaveOk /\ impl = "types") =>
        /\ HasCatalog
        /\ "Info" \in DOMAIN target.trailer /\ Has(target.trailer.Info.Reference)
        /\ Obj(target.trailer.Info.Reference).Type = "Info"
        /\ Len(target.trailer.ID) = 2
        /\ target.trailer.ID[1]
              = (IF requested_id = "" THEN doc.document_id ELSE requested_id)

\* C7: a failed write ends save with an IoError value: no panic, no Ok; Ok
\* only when the write succeeded.
C7_IoError ==
    ret.op = "save" =>
        /\ ~target.written => (ret.kind = "Err" /\ ret.err = "IoError")
        /\ ret.kind = "Ok" => target.written

\* C6 as stated: the catalog has an OutputIntents entry exactly when an ICC
\* profile is set, and then it is a 1-element array whose dictionary
\* references the embedded profile object.
C6_OutputIntentsIffProfile ==
    (SaveOk /\ impl = "types") =>
        /\ HasCatalog
        /\ "OutputIntents" \in DOMAIN Obj(CatalogId) <=> doc.metadata.icc_profile # "None"
        /\ "OutputIntents" \in DOMAIN Obj(CatalogId) =>
              /\ Len(Obj(CatalogId).OutputIntents) = 1
              /\ "DestinationOutputProfile" \in DOMAIN Obj(CatalogId).OutputIntents[1]

\* C6 as amended: the catalog always has an OutputIntents array of length 1;
\* its dictionary has a DestinationOutputProfile entry exactly when an ICC
\* profile is set, and the entry then references the embedded profile object
\* present in the serialized graph.
C6_OutputIntentsAlways ==
    (SaveOk /\ impl = "types") =>
        /\ HasCatalog
        /\ "OutputIntents" \in DOMAIN Obj(CatalogId)
        /\ Len(Obj(CatalogId).OutputIntents) = 1
        /\ LET oi == Obj(CatalogId).OutputIntents[1]
           IN /\ "DestinationOutputProfile" \in DOMAIN oi <=> doc.metadata.icc_profile # "None"
              /\ "DestinationOutputProfile" \in DOMAIN oi =>
                    /\ Has(oi.DestinationOutputProfile.Reference)
                    /\ Obj(oi.DestinationOutputProfile.Reference).Type = "ICCProfile"
C6_Witness ==
    /\ SaveOk /\ impl = "types" /\ doc.metadata.icc_profile # "None"
    /\ "DestinationOutputProfile" \in DOMAIN Obj(CatalogId).OutputIntents[1]

\* C8: add_page returns the number of pages before the call and a content
\* adder the number of contents before the call; a returned handle was never
\* returned before; every handle issued so far keeps resolving to the same
\* page / content reference; the collections never shrink or reorder.
C8_HandlesStep ==
    /\ (ret'.op = "add_page" /\ ret'.kind = "Ok") =>
          /\ ret'.val[1] = Len(ThePages)
          /\ Len(ThePages') = Len(ThePages) + 1
          /\ ret'.val[1] \notin {h.index : h \in issued.pages}
    /\ (ret'.op \in ContentAdders /\ ret'.kind = "Ok") =>
          /\ ret'.val[1] = Len(TheContents)
          /\ Len(TheContents') = Len(TheContents) + 1
          /\ ret'.val[1] \notin {h.index : h \in issued.contents}
    /\ \A h \in issued'.pages :
          /\ h.index < Len(ThePages')
          /\ ThePages'[h.index + 1].width_pt = h.width_pt
          /\ ThePages'[h.index + 1].heigth_pt = h.heigth_pt
    /\ \A h \in issued'.contents :
          /\ h.index < Len(TheContents')
          /\ TheContents'[h.index + 1] = h.content
    /\ Len(ThePages') >= Len(ThePages)
    /\ \A i \in 1..Len(ThePages) :
          /\ ThePages'[i].width_pt = ThePages[i].width_pt
          /\ ThePages'[i].heigth_pt = ThePages[i].heigth_pt
    /\ Len(TheContents') >= Len(TheContents)
    /\ \A i \in 1..Len(TheContents) : TheContents'[i] = TheContents[i]
C8_Handles == [][C8_HandlesStep]_vars
C8_Witness ==
    /\ ret.op \in ContentAdders /\ ret.kind = "Ok" /\ ret.val[1] = 1
    /\ Len(ThePages) >= 2 /\ Cardinality(issued.contents) = 2

\* C9: on an existing layer (page, layer) of the api document a successful
\* add_marker appends exactly one marker and returns (page, layer, m), m the
\* number of markers before the call; no other step changes the layer's markers.
LayerAt(d, p, l) == d.pages[p + 1].layers[l + 1]
HasLayer(d, p, l) == p < Len(d.pages) /\ l < Len(d.pages[p + 1].layers)
C9_AddMarkerStep ==
    \A p \in 0..(Len(api_doc.pages) - 1) :
        \A l \in 0..(Len(api_doc.pages[p + 1].layers) - 1) :
            /\ HasLayer(api_doc', p, l)
            /\ IF ret'.op = "add_marker" /\ ret'.kind = "Ok" /\ ret'.arg = <<p, l>>
               THEN /\ ret'.val = <<p, l, Len(LayerAt(api_doc, p, l).markers)>>
                    /\ Len(LayerAt(api_doc', p, l).markers)
                          = Len(LayerAt(api_doc, p, l).markers) + 1
                    /\ SubSeq(LayerAt(api_doc', p, l).markers, 1,
                              Len(LayerAt(api_doc, p, l).markers))
                          = LayerAt(api_doc, p, l).markers
               ELSE LayerAt(api_doc', p, l).markers = LayerAt(api_doc, p, l).markers
C9_AddMarker == [][C9_AddMarkerStep]_vars
C9_Witness ==
    /\ impl = "api" /\ ret.op = "add_marker" /\ ret.kind = "Ok" /\ ret.val = <<0, 0, 1>>
    /\ Len(api_doc.pages[1].layers) >= 2
    /\ Len(api_doc.pages[1].layers[1].markers) = 2

\* C10: a get_*, add_layer or add_marker call that returns an error leaves
\* the document as it was: pages, layers, markers, contents, current marker.
FallibleCalls ==
    {"get_page", "get_mut_page", "get_layer", "get_mut_layer", "get_marker",
     "get_mut_marker", "add_layer", "add_marker"}
C10_FailedCallStep ==
    (ret'.op \in FallibleCalls /\ ret'.kind = "Err") =>
        /\ api_doc'.pages = api_doc.pages
        /\ api_doc'.contents = api_doc.contents
        /\ api_doc'.current_marker = api_doc.current_marker
        /\ doc' = doc
C10_FailedCall == [][C10_FailedCallStep]_vars
C10_Witness ==
    /\ impl = "api" /\ ret.op = "add_marker" /\ ret.kind = "Err"
    /\ ret.err = "PdfLayerIndexError" /\ ret.arg = <<0, 1>>
    /\ Len(api_doc.pages[1].layers) = 1 /\ Len(api_doc.pages[1].layers[1].markers) = 1

\* C11: while the types document is open it holds at least one page and every
\* page holds at least one layer, so add_page's read of pages[0] is in bounds
\* and add_page never fails.
C11_NonEmpty ==
    (impl = "types" /\ phase \in {"open", "panicked"}) =>
        /\ Len(doc.pages) >= 1
        /\ \A i \in 1..Len(doc.pages) : Len(doc.pages[i].layers) >= 1
        /\ ret.op = "add_page" => ret.kind = "Ok"
C11_Witness ==
    /\ impl = "types" /\ phase = "open"
    /\ ret.op = "add_page" /\ ret.kind = "Ok" /\ ret.val = <<2, 0>>
    /\ Len(doc.pages) = 3

\* C12: the api document's current_marker always addresses an existing
\* marker, so get_inner's unwrap of get_marker(current_marker) never panics.
C12_CurrentMarker ==
    impl = "api" =>
        /\ phase = "open" => api_get_marker(api_doc, api_doc.current_marker).kind = "Ok"
        /\ ret.op = "get_inner" => ret.kind = "Ok"

TypeOK == phase \in {"open", "saved", "consumed", "panicked"}

====
